---- MODULE Spec2Model ----
(***************************************************************************)
(* Model of the WaveNet vocoder decoding driver, src/decode.py.            *)
(*                                                                         *)
(* Two threads are modelled: the main thread (the __main__ block) and the  *)
(* thread of the @background(max_prefetch=1) decorator that runs the body  *)
(* of decode_generator and hands its items over through a bounded queue.   *)
(*                                                                         *)
(* Environment: the config, stats and feature files are readable; the      *)
(* GPU may or may not be available, --outdir may or may not exist, and     *)
(* --feats is either a directory of .h5 files or a text list of paths.     *)
(***************************************************************************)
EXTENDS Integers, Sequences, FiniteSets, TLC

(* ------------------------------ bounds --------------------------------- *)
MaxFiles == 4       \* longest feature list
MaxFrames == 2      \* most feature frames T in one feature file
MaxVerbose == 2     \* largest --verbose value
FeatDims == 2       \* feature dimensions per frame in a feature file

(* ------------------------- program constants --------------------------- *)
\* a prefetch depth of two
MaxPrefetchTwo == 1 + 1
\* @background(max_prefetch=1)
MaxPrefetch == 1
NQuantize == 256    \* config.n_quantize

VerboseValues == -1..MaxVerbose

\* feature file paths "<dir>/<stem>.h5"; the path order and the order of
\* the base names differ, so that sorting by path is observable
Paths == { [dir |-> 1, stem |-> 2, ext |-> ".h5"],
           [dir |-> 2, stem |-> 1, ext |-> ".h5"] }

RECURSIVE SeqsUpTo(_)
SeqsUpTo(n) ==
    IF n = 0 THEN { <<>> }
    ELSE LET shorter == SeqsUpTo(n - 1)
         IN  shorter \cup { Append(s, p) : s \in { t \in shorter : Len(t) = n - 1 }, p \in Paths }

\* what --feats names: a directory holding a set of files, or a text file
\* holding a list of lines
FeatsArgs ==
    { [isdir |-> TRUE, files |-> S, lines |-> <<>>] : S \in SUBSET Paths }
    \cup { [isdir |-> FALSE, files |-> {}, lines |-> l] : l \in SeqsUpTo(MaxFiles) }

(* --------------------------- pure functions ---------------------------- *)
\* string order on paths
PathLess(p, q) == p.dir < q.dir \/ (p.dir = q.dir /\ p.stem < q.stem)

\* sorted(find_files(args.feats, "*.h5"))
RECURSIVE sorted(_)
sorted(S) ==
    IF S = {} THEN <<>>
    ELSE LET least == CHOOSE p \in S : \A q \in S \ {p} : PathLess(p, q)
         IN  <<least>> \o sorted(S \ {least})

\* read_txt(args.feats)
read_txt(f) == f.lines

\* the feature list of the "define generator" step
FeatList(f) == IF f.isdir THEN sorted(f.files) ELSE read_txt(f)

\* os.path.basename(featfile).replace(".h5", "")
Basename(p) == [stem |-> p.stem, ext |-> p.ext]
FeatId(p) == LET base == Basename(p) IN IF base.ext = ".h5" THEN base.stem ELSE base

\* args.outdir + "/" + feat_id + ".wav"
WavPath(feat_id) == [dir |-> "outdir", stem |-> feat_id, ext |-> ".wav"]

\* log level selection of the "set log level" step
LogLevel(v) == IF v > 0 THEN "INFO" ELSE IF v > 1 THEN "DEBUG" ELSE "WARN"

\* encode_mu_law on the amplitudes -1, 0, 1:
\* floor((sign(x) * log(1 + mu|x|) / log(1 + mu) + 1) / 2 * mu + 0.5)
encode_mu_law(x, n_quantize) ==
    LET mu == n_quantize - 1
    IN  IF x = 0 THEN (mu + 1) \div 2 ELSE IF x > 0 THEN mu ELSE 0

\* np.zeros((1))
Zeros1 == [data |-> <<0>>, shape |-> <<1>>, kind |-> "ndarray"]

\* read_hdf5(featfile, "/feat"): an array of shape (T, dims)
ReadFeat(p, T) == [shape |-> <<T, FeatDims>>, file |-> p, normalized |-> FALSE,
                   kind |-> "ndarray"]

\* wav_transform: mu-law encode, to a long cuda tensor, to a Variable
WavTransform(x) ==
    [data |-> [k \in 1..Len(x.data) |-> encode_mu_law(x.data[k], NQuantize)],
     shape |-> x.shape, kind |-> "cuda_long"]

\* feat_transform: scaler.transform, to a float cuda tensor, to a Variable
FeatTransform(h) == [h EXCEPT !.normalized = TRUE, !.kind = "cuda_float"]

\* x.unsqueeze(0)
Unsqueeze0(t) == [t EXCEPT !.shape = <<1>> \o t.shape]

\* h.transpose(0, 1)
Transpose01(t) == [t EXCEPT !.shape = <<t.shape[2], t.shape[1]>>]

\* h.size(2) - 1, with the 0-based dimension 2 being the third one
NSamplesNoOffset(h) == h.shape[3]
NSamples(h) == h.shape[3] - 1

(* ------------------------------- state --------------------------------- *)
VARIABLES
    verbose,          \* args.verbose
    gpuAvailable,     \* torch.cuda.is_available()
    outdirExists,     \* os.path.exists(args.outdir)
    feats,            \* what args.feats names
    frames,           \* number of feature frames of each feature file
    pc,               \* position of the main thread
    logLevel,         \* level given to logging.basicConfig
    logged,           \* messages emitted through logging
    exitStatus,       \* process exit status, -1 while running
    checkpointLoaded, \* parameters of args.checkpoint are in the model
    modelOnGpu,       \* model.cuda() was called
    feat_list,        \* feat_list
    gpc,              \* position of the generator thread
    gi,               \* index in feat_list of the generator's featfile
    gx,               \* x of decode_generator
    gh,               \* h of decode_generator
    queue,            \* prefetch queue between the two threads
    cur,              \* item bound by the decode loop
    steps,            \* per list entry: the pipeline calls made for it
    written           \* audio files written, in order

vars == << verbose, gpuAvailable, outdirExists, feats, frames, pc, logLevel,
           logged, exitStatus, checkpointLoaded, modelOnGpu, feat_list, gpc,
           gi, gx, gh, queue, cur, steps, written >>

envVars == << verbose, gpuAvailable, feats, frames >>
genVars == << gpc, gi, gx, gh >>

NoTensor == [kind |-> "none"]
None == [kind |-> "None"]

Init ==
    /\ verbose \in VerboseValues
    /\ gpuAvailable \in BOOLEAN
    /\ outdirExists \in BOOLEAN
    /\ feats \in FeatsArgs
    /\ frames \in [Paths -> 1..MaxFrames]
    /\ pc = "set_log_level"
    /\ logLevel = "unset"
    /\ logged = {}
    /\ exitStatus = -1
    /\ checkpointLoaded = FALSE
    /\ modelOnGpu = FALSE
    /\ feat_list = <<>>
    /\ gpc = "not_started"
    /\ gi = 0
    /\ gx = NoTensor
    /\ gh = NoTensor
    /\ queue = <<>>
    /\ cur = None
    /\ steps = <<>>
    /\ written = <<>>

(* --------------------------- main thread ------------------------------- *)
\* the process ends: sys.exit, an uncaught exception, or the end of the script
Exit(status) ==
    /\ pc' = "exited"
    /\ exitStatus' = status

\* set log level (and fix seed)
SetLogLevel ==
    /\ pc = "set_log_level"
    /\ logLevel' = LogLevel(verbose)
    /\ logged' = IF verbose > 0 \/ verbose > 1
                 THEN logged
                 ELSE logged \cup {"logging is disabled."}
    /\ pc' = "load_config"
    /\ UNCHANGED << envVars, outdirExists, exitStatus, checkpointLoaded,
                    modelOnGpu, feat_list, genVars, queue, cur, steps, written >>

\* load config, define network: WaveNet(...) is built from the config only
LoadConfig ==
    /\ pc = "load_config"
    /\ pc' = "send_to_gpu"
    /\ UNCHANGED << envVars, outdirExists, logLevel, logged, exitStatus,
                    checkpointLoaded, modelOnGpu, feat_list, genVars, queue,
                    cur, steps, written >>

\* send to gpu, without the exit of the else branch
SendToGpuNoExit ==
    /\ pc = "send_to_gpu"
    /\ modelOnGpu' = gpuAvailable
    /\ logged' = IF gpuAvailable THEN logged
                 ELSE logged \cup {"gpu is not available. please check the setting."}
    /\ pc' = "define_transforms"
    /\ UNCHANGED << envVars, outdirExists, logLevel, exitStatus,
                    checkpointLoaded, feat_list, genVars, queue, cur, steps,
                    written >>

\* send to gpu
SendToGpu ==
    /\ pc = "send_to_gpu"
    /\ IF gpuAvailable
       THEN /\ modelOnGpu' = TRUE
            /\ pc' = "define_transforms"
            /\ UNCHANGED << logged, exitStatus >>
       ELSE /\ logged' = logged \cup {"gpu is not available. please check the setting."}
            /\ Exit(1)
            /\ UNCHANGED modelOnGpu
    /\ UNCHANGED << envVars, outdirExists, logLevel, checkpointLoaded,
                    feat_list, genVars, queue, cur, steps, written >>

\* define transforms: the scaler statistics are read, the transforms built
DefineTransforms ==
    /\ pc = "define_transforms"
    /\ pc' = "define_generator"
    /\ UNCHANGED << envVars, outdirExists, logLevel, logged, exitStatus,
                    checkpointLoaded, modelOnGpu, feat_list, genVars, queue,
                    cur, steps, written >>

\* define generator: the list is built and the generator thread is started
DefineGenerator ==
    /\ pc = "define_generator"
    /\ feat_list' = FeatList(feats)
    /\ steps' = [i \in 1..Len(FeatList(feats)) |-> <<>>]
    /\ gpc' = "for"
    /\ gi' = 0
    /\ pc' = "check_directory"
    /\ UNCHANGED << envVars, outdirExists, logLevel, logged, exitStatus,
                    checkpointLoaded, modelOnGpu, gx, gh, queue, cur, written >>

\* check directory existence: os.makedirs is called on a path that exists,
\* where it raises; a missing directory is left missing
CheckDirectory ==
    /\ pc = "check_directory"
    /\ IF outdirExists
       THEN Exit(1)
       ELSE pc' = "for" /\ UNCHANGED exitStatus
    /\ UNCHANGED << envVars, outdirExists, logLevel, logged, checkpointLoaded,
                    modelOnGpu, feat_list, genVars, queue, cur, steps, written >>

(* ------------------------ prefetch queue ------------------------------- *)
\* Queue(max_prefetch): put blocks while the queue is full, get while empty
QueueFull(q) == Len(q) >= MaxPrefetch
QueuePut(q, item) == Append(q, item)
QueueGet(q) == Head(q)
QueueRest(q) == Tail(q)

\* the generator thread is a daemon: it runs only while the process lives
GenRunning == pc # "exited"

(* ---------------------- decode_generator thread ------------------------ *)
\* x = np.zeros((1)); h = read_hdf5(featfile, "/feat")
GenLoad ==
    /\ GenRunning
    /\ gpc = "for"
    /\ gi < Len(feat_list)
    /\ gi' = gi + 1
    /\ gx' = Zeros1
    /\ gh' = ReadFeat(feat_list[gi + 1], frames[feat_list[gi + 1]])
    /\ steps' = [steps EXCEPT ![gi + 1] = Append(@, "read_hdf5")]
    /\ gpc' = "wav_transform"
    /\ UNCHANGED << envVars, outdirExists, pc, logLevel, logged, exitStatus,
                    checkpointLoaded, modelOnGpu, feat_list, queue, cur, written >>

\* x = wav_transform(x)
GenWavTransform ==
    /\ GenRunning
    /\ gpc = "wav_transform"
    /\ gx' = WavTransform(gx)
    /\ gpc' = "feat_transform"
    /\ UNCHANGED << envVars, outdirExists, pc, logLevel, logged, exitStatus,
                    checkpointLoaded, modelOnGpu, feat_list, gi, gh, queue, cur,
                    steps, written >>

\* the feature transform left out
GenFeatTransformSkipped ==
    /\ GenRunning
    /\ gpc = "feat_transform"
    /\ gpc' = "reshape"
    /\ UNCHANGED << envVars, outdirExists, pc, logLevel, logged, exitStatus,
                    checkpointLoaded, modelOnGpu, feat_list, gi, gx, gh, queue,
                    cur, steps, written >>

\* h = feat_transform(h)
GenFeatTransform ==
    /\ GenRunning
    /\ gpc = "feat_transform"
    /\ gh' = FeatTransform(gh)
    /\ steps' = [steps EXCEPT ![gi] = Append(@, "feat_transform")]
    /\ gpc' = "reshape"
    /\ UNCHANGED << envVars, outdirExists, pc, logLevel, logged, exitStatus,
                    checkpointLoaded, modelOnGpu, feat_list, gi, gx, queue, cur,
                    written >>

\* x = x.unsqueeze(0); h = h.transpose(0, 1).unsqueeze(0)
GenReshape ==
    /\ GenRunning
    /\ gpc = "reshape"
    /\ gx' = Unsqueeze0(gx)
    /\ gh' = Unsqueeze0(Transpose01(gh))
    /\ gpc' = "yield"
    /\ UNCHANGED << envVars, outdirExists, pc, logLevel, logged, exitStatus,
                    checkpointLoaded, modelOnGpu, feat_list, gi, queue, cur,
                    steps, written >>

\* the item of one feature file; entry is the position in feat_list
Item(entry, featfile, x, h) ==
    [kind |-> "item", entry |-> entry, feat_id |-> FeatId(featfile),
     x |-> x, h |-> h, n_samples |-> NSamples(h)]

\* n_samples = ...; feat_id = ...; yield feat_id, (x, h, n_samples)
GenYield ==
    /\ GenRunning
    /\ gpc = "yield"
    /\ ~QueueFull(queue)
    /\ queue' = QueuePut(queue, Item(gi, feat_list[gi], gx, gh))
    /\ gpc' = "for"
    /\ UNCHANGED << envVars, outdirExists, pc, logLevel, logged, exitStatus,
                    checkpointLoaded, modelOnGpu, feat_list, gi, gx, gh, cur,
                    steps, written >>

\* the generator is exhausted: the end marker is queued
GenEnd ==
    /\ GenRunning
    /\ gpc = "for"
    /\ gi = Len(feat_list)
    /\ ~QueueFull(queue)
    /\ queue' = QueuePut(queue, None)
    /\ gpc' = "finished"
    /\ UNCHANGED << envVars, outdirExists, pc, logLevel, logged, exitStatus,
                    checkpointLoaded, modelOnGpu, feat_list, gi, gx, gh, cur,
                    steps, written >>

(* ----------------------------- decode loop ----------------------------- *)
\* for feat_id, (x, h, n_samples) in generator
ForNext ==
    /\ pc = "for"
    /\ queue # <<>>
    /\ queue' = QueueRest(queue)
    /\ IF QueueGet(queue) = None
       THEN Exit(0) /\ UNCHANGED cur
       ELSE cur' = QueueGet(queue) /\ pc' = "fast_generate" /\ UNCHANGED exitStatus
    /\ UNCHANGED << envVars, outdirExists, logLevel, logged, checkpointLoaded,
                    modelOnGpu, feat_list, genVars, steps, written >>

\* samples = model.fast_generate(x, h, n_samples)
FastGenerate ==
    /\ pc = "fast_generate"
    /\ steps' = [steps EXCEPT ![cur.entry] = Append(@, "fast_generate")]
    /\ pc' = "decode_mu_law"
    /\ UNCHANGED << envVars, outdirExists, logLevel, logged, exitStatus,
                    checkpointLoaded, modelOnGpu, feat_list, genVars, queue,
                    cur, written >>

\* wav = decode_mu_law(samples, config.n_quantize)
DecodeMuLaw ==
    /\ pc = "decode_mu_law"
    /\ steps' = [steps EXCEPT ![cur.entry] = Append(@, "decode_mu_law")]
    /\ pc' = "sf_write"
    /\ UNCHANGED << envVars, outdirExists, logLevel, logged, exitStatus,
                    checkpointLoaded, modelOnGpu, feat_list, genVars, queue,
                    cur, written >>

\* sf.write(args.outdir + "/" + feat_id + ".wav", ...): the file is created
\* in an existing directory, and the call raises when the directory is missing;
\* steps records the call, written the file
SfWrite ==
    /\ pc = "sf_write"
    /\ steps' = [steps EXCEPT ![cur.entry] = Append(@, "sf_write")]
    /\ IF outdirExists
       THEN /\ written' = Append(written, WavPath(cur.feat_id))
            /\ pc' = "for"
            /\ UNCHANGED exitStatus
       ELSE /\ Exit(1)
            /\ UNCHANGED written
    /\ UNCHANGED << envVars, outdirExists, logLevel, logged, checkpointLoaded,
                    modelOnGpu, feat_list, genVars, queue, cur >>

Next ==
    \/ SetLogLevel
    \/ LoadConfig
    \/ SendToGpu
    \/ DefineTransforms
    \/ DefineGenerator
    \/ CheckDirectory
    \/ GenLoad
    \/ GenWavTransform
    \/ GenFeatTransform
    \/ GenReshape
    \/ GenYield
    \/ GenEnd
    \/ ForNext
    \/ FastGenerate
    \/ DecodeMuLaw
    \/ SfWrite

Spec == Init /\ [][Next]_vars

TypeOK ==
    /\ pc \in {"set_log_level", "load_config", "send_to_gpu", "define_transforms",
               "define_generator", "check_directory", "for", "fast_generate",
               "decode_mu_law", "sf_write", "exited"}
    /\ gpc \in {"not_started", "for", "wav_transform", "feat_transform",
                "reshape", "yield", "finished"}
    /\ exitStatus \in {-1, 0, 1}
    /\ Len(queue) <= MaxPrefetch

(* ------------------------------ properties ----------------------------- *)
Range(f) == { f[k] : k \in DOMAIN f }
IsPrefix(s, t) == Len(s) <= Len(t) /\ \A k \in 1..Len(s) : s[k] = t[k]

\* the calls made for one feature file, in pipeline order
Pipeline == << "read_hdf5", "feat_transform", "fast_generate", "decode_mu_law",
               "sf_write" >>

\* the generator thread has read a feature file and not yet finished
\* transforming it
GenBusy == gpc \in {"wav_transform", "feat_transform", "reshape"}

\* the decode loop holds an item and has not yet finished its sf.write
MainBusy == pc \in {"fast_generate", "decode_mu_law", "sf_write"}

\* the decode loop has generated the samples of its item and not yet
\* finished its sf.write
MainGenerated == pc \in {"decode_mu_law", "sf_write"}

\* the items handed over by decode_generator that are still in the state
Yielded == { queue[k] : k \in { j \in 1..Len(queue) : queue[j] # None } }
             \cup (IF cur = None THEN {} ELSE {cur})

\* C1: a 'checkpoint loaded' step precedes every generation step: whenever
\* fast_generate has been called for an entry, the parameters of the
\* --checkpoint file are in the model.
C1_CheckpointLoadedBeforeGenerate ==
    \A i \in DOMAIN steps :
        "fast_generate" \in Range(steps[i]) => checkpointLoaded

\* C2: without a GPU the driver logs the error and exits with status 1 at the
\* 'send to gpu' step, and in that run the generator is never started, no
\* feature file is read, nothing is generated and no audio file is written.
C2_NoGpuAborts ==
    ~gpuAvailable =>
        /\ pc \in {"set_log_level", "load_config", "send_to_gpu", "exited"}
        /\ pc = "exited" =>
              /\ exitStatus = 1
              /\ "gpu is not available. please check the setting." \in logged
        /\ gpc = "not_started"
        /\ feat_list = <<>>
        /\ steps = <<>>
        /\ queue = <<>>
        /\ written = <<>>
        /\ ~modelOnGpu

C2_Witness == ~gpuAvailable /\ pc = "exited"

\* C3: with a GPU available (and readable inputs) a run never ends in an
\* error state, whether or not the --outdir directory exists.
C3_GpuRunNeverFails ==
    (gpuAvailable /\ pc = "exited") => exitStatus = 0

C5_PipelineOrder ==
    /\ \A i \in DOMAIN steps : IsPrefix(steps[i], Pipeline)
    /\ Len(written) <= Cardinality({ i \in DOMAIN steps :
                                       "fast_generate" \in Range(steps[i]) })

C5_Witness == \E i \in DOMAIN steps : steps[i] = Pipeline

C7_OutdirExistsAtWrite ==
    pc = "sf_write" => outdirExists

\* C8: --verbose > 1 configures DEBUG, exactly 1 configures INFO, and 0 or
\* less configures WARN and emits the 'logging is disabled.' warning.
C8_VerboseSelectsLevel ==
    pc # "set_log_level" =>
        /\ verbose > 1 => logLevel = "DEBUG"
        /\ verbose = 1 => logLevel = "INFO"
        /\ verbose <= 0 => (logLevel = "WARN" /\ "logging is disabled." \in logged)
        /\ verbose > 0 => "logging is disabled." \notin logged

\* C9: every item yielded for a feature file with T frames has
\* n_samples = T - 1, a one-sample initial waveform holding the mu-law code
\* of a zero sample, and the normalized features of that file in shape
\* (1, dims, T), whatever was processed before it.
C9_YieldedItem ==
    \A it \in Yielded :
        LET featfile == feat_list[it.entry]
            T == frames[featfile]
        IN  /\ it.n_samples = T - 1
            /\ it.x.data = << encode_mu_law(0, NQuantize) >>
            /\ it.x.shape = <<1, 1>>
            /\ it.h.shape = <<1, FeatDims, T>>
            /\ it.h.file = featfile
            /\ it.h.normalized
            /\ it.feat_id = featfile.stem
            /\ it.x.kind = "cuda_long"

\* a second entry, of another length than the first, has been yielded
C9_Witness ==
    \E it \in Yielded :
        /\ it.entry = 2
        /\ frames[feat_list[2]] # frames[feat_list[1]]
====
